---- MODULE Spec2Model ----
(***************************************************************************)
(* Model of the configuration holder of src/src/index.ts (class            *)
(* ApexFramework) together with the caller that owns the objects it        *)
(* passes in and gets back.                                                *)
(*                                                                         *)
(* JavaScript objects are references: the model keeps a heap of objects    *)
(* addressed by their index, and every variable of the program (the        *)
(* private field this.config, the caller's variables) holds an address.    *)
(*                                                                         *)
(* Second part: the installers scripts/setup.sh (src/unnamed/part_001) and *)
(* scripts/setup.ps1 (src/unnamed/part_000), run in a project directory    *)
(* whose files and directories are the variable fs.                        *)
(***************************************************************************)
EXTENDS Integers, Sequences, FiniteSets, TLC

\* ------------------------------------------------------------ bounds ----
\* Statements of a run of the caller, each an assignment to a field of an
\* object or a call of the constructor or of a method.
MaxSteps == 5
\* Runs of the setup script in one project.
MaxRuns == 2
\* Statements of a caller that has two holders.
MaxPairSteps == 4
\* Statements of a caller that constructs a holder and updates it.
MaxComposeSteps == 3

\* ------------------------------------------------------- data model ----
\* interface ApexConfig: the three fields.
Fields == {"name", "version", "environment"}

\* Sample values of the string fields (those used by the unit tests).
Names == {"Test Project", "Updated Project"}
Versions == {"1.0.0", "2.0.0"}
\* environment: 'development' | 'production' | 'test'
Environments == {"development", "production", "test"}

FieldValues(f) ==
  CASE f = "name" -> Names
    [] f = "version" -> Versions
    [] f = "environment" -> Environments

\* Partial<ApexConfig>: an object owning any subset of the fields.
PartialConfigs ==
  UNION {{o \in [D -> Names \cup Versions \cup Environments] :
            \A f \in D : o[f] \in FieldValues(f)} : D \in SUBSET Fields}

\* ApexConfig: an object owning all three fields.
ApexConfig == {o \in PartialConfigs : DOMAIN o = Fields}

\* The object literals the caller writes. ConfigLiterals: the configurations
\* of the unit tests (defaultConfig, and a development one as in the factory
\* test). UpdateLiterals: every subset of the fields of one other
\* configuration, from {} to all three. Assignments (CallerSet) reach every
\* other value.
Restrict(o, D) == [f \in D |-> o[f]]
ConfigLiterals ==
  {[name |-> "Test Project", version |-> "1.0.0", environment |-> e] :
     e \in {"test", "development"}}
UpdateLiterals ==
  {Restrict([name |-> "Updated Project", version |-> "2.0.0",
             environment |-> "production"], D) : D \in SUBSET Fields}

\* The holders (variables of type ApexFramework) of the caller.
Holders == {"h1"}
\* The holders of a caller that has two.
TwoHolders == {"h1", "h2"}

\* ------------------------------------------- installer: data model ----
\* The paths of the project the scripts test, create or write. The last of
\* the cursor paths is where cp writes when .cursorrules is a directory.
ClaudePaths ==
  {".claude", ".claude/commands", ".claude/apex.md",
   ".claude/commands/apex-feature.md", ".claude/commands/apex-task.md",
   ".claude/commands/apex-review.md", ".claude/commands/apex-commit.md"}
CursorPaths == {".cursorrules", ".cursorrules/.cursorrules"}
CopilotPaths == {".github", ".github/copilot", ".github/copilot/instructions.md"}
ContinuePaths == {".continue", ".continue/config.json"}
Paths == ClaudePaths \cup CursorPaths \cup CopilotPaths \cup ContinuePaths

\* The directory a path lies in; "." is the project directory.
Parent(p) ==
  CASE p \in {".claude/commands", ".claude/apex.md"} -> ".claude"
    [] p \in {".claude/commands/apex-feature.md", ".claude/commands/apex-task.md",
              ".claude/commands/apex-review.md", ".claude/commands/apex-commit.md"}
         -> ".claude/commands"
    [] p = ".cursorrules/.cursorrules" -> ".cursorrules"
    [] p = ".github/copilot" -> ".github"
    [] p = ".github/copilot/instructions.md" -> ".github/copilot"
    [] p = ".continue/config.json" -> ".continue"
    [] OTHER -> "."

\* The paths the detection tests: each may be absent, a file or a directory.
Markers == {".claude", ".cursorrules", ".github/copilot", ".continue/config.json"}
\* The other directories and the other files of a project.
PlainDirs == {".claude/commands", ".github", ".continue"}
PlainFiles == Paths \ (Markers \cup PlainDirs)

\* Contents: "user" is a file the project had before any run, "t1" and "t2"
\* the template files before and after an update of the APEX checkout.
Contents == {"user", "t1", "t2"}
Nodes == {"none", "dir"} \cup Contents

\* A project before its first run: nothing exists outside a directory.
KindOk(f, p) ==
  /\ f[p] \in {"none", "dir", "user"}
  /\ p \in PlainDirs => f[p] # "user"
  /\ p \in PlainFiles => f[p] # "dir"
  /\ (f[p] # "none" /\ Parent(p) # ".") => f[Parent(p)] = "dir"
Trees(P) == {f \in [P -> {"none", "dir", "user"}] : \A p \in P : KindOk(f, p)}
Layouts ==
  {a @@ b @@ c @@ d : a \in Trees(ClaudePaths), b \in Trees(CursorPaths),
                      c \in Trees(CopilotPaths), d \in Trees(ContinuePaths)}

\* What the user may type at "Select (1-5): ".
Choices == {"1", "2", "3", "4", "5", "x"}

\* The two scripts.
Scripts == {"sh", "ps1"}

\* --------------------------------------------------------- variables ----
VARIABLES
  heap,      \* heap[a]: the object at address a, a function from its own fields
  origin,    \* origin[a]: what allocated a: "literal" | "copy" | "merged"
  config,    \* config[h]: the address in the private field this.config, 0 = not constructed
  out,       \* the lines written by console.log, oldest first
  returned,  \* returned[h]: the addresses h.getConfig() has returned
  ctorArg,   \* ctorArg[h]: the address passed to the constructor of h
  nUpdates,  \* nUpdates[h]: calls of h.updateConfig so far
  nInits,    \* calls of initialize() so far
  announced, \* announced[h]: the lines of h's latest initialize(), {} after an updateConfig
  snapshot,  \* snapshot[h]: the value of h's latest getConfig(), {} after an updateConfig
             \* or an assignment to an object that no getConfig returned
  nSteps,    \* statements so far
  lastOp,    \* the statement that produced this state
  \* --- the installer ---
  fs,        \* fs[p]: "none", "dir", or the content of the regular file at path p
  tmpl,      \* the content of the template files of the APEX checkout
  script,    \* "sh" (setup.sh) or "ps1" (setup.ps1); "off" when no installer runs
  pc,        \* where the script is: "ready" | "detect" | "menu" | "setup" | "done"
             \* | "exit1" (invalid choice) | "error" (a command failed)
  tool,      \* TOOL / $Tool
  stepNo,    \* the next command of the setup case of the tool
  asked,     \* the menu was shown in this run
  answer,    \* what the user types at the menu, "unset" until first asked
  fs0,       \* fs when this run started
  ops,       \* the mkdir and cp commands this run has executed, in order
  run        \* runs started

hvars == <<heap, origin, config, out, returned, ctorArg, nUpdates, nInits,
           announced, snapshot, nSteps, lastOp>>
svars == <<fs, tmpl, script, pc, tool, stepNo, asked, answer, fs0, ops, run>>
vars == <<hvars, svars>>

Addrs == 1..Len(heap)

\* Every address some getConfig() has returned.
Returned == UNION {returned[h] : h \in DOMAIN returned}

\* Objects the caller holds a reference to: the literals it wrote and what
\* getConfig returned. The result of a merge is referenced by this.config only.
CallerHeld == {a \in Addrs : origin[a] = "literal"} \cup Returned

\* An argument expression of a call: an object literal, evaluated to a new
\* object the caller keeps a reference to, or a variable holding an address.
Lit(o) == [kind |-> "lit", obj |-> o, addr |-> 0]
Ref(a) == [kind |-> "ref", obj |-> <<>>, addr |-> a]
ConfigArgs == {Lit(o) : o \in ConfigLiterals} \cup {Ref(a) : a \in CallerHeld}
UpdateArgs == {Lit(o) : o \in UpdateLiterals} \cup {Ref(a) : a \in CallerHeld}

\* The heap once the argument x is evaluated, and the address x evaluates to.
HeapWith(x) == IF x.kind = "lit" THEN Append(heap, x.obj) ELSE heap
OriginWith(x) == IF x.kind = "lit" THEN Append(origin, "literal") ELSE origin
AddrOf(x) == IF x.kind = "lit" THEN Len(heap) + 1 ELSE x.addr

Op(o, h, a, r) == [op |-> o, holder |-> h, arg |-> a, ret |-> r]

\* The run has statements left.
Running == nSteps < MaxSteps

\* One more statement of the run; no installer runs meanwhile.
Tick == nSteps' = nSteps + 1 /\ UNCHANGED svars

\* ------------------------------------------------- object operations ----
\* Variant: the copy is written field by field and one field is forgotten,
\* { name: a.name, version: a.version }.
SpreadOneForgetsField(a) == [f \in DOMAIN a \ {"environment"} |-> a[f]]

\* { ...a }: a new object with a's own fields.
SpreadOne(a) == [f \in DOMAIN a |-> a[f]]

\* Variant: the operands in the wrong order, { ...b, ...a }.
SpreadTwoLeftBiased(a, b) ==
  [f \in DOMAIN a \cup DOMAIN b |-> IF f \in DOMAIN a THEN a[f] ELSE b[f]]

\* Variant: the previous configuration is dropped, { ...b }.
SpreadTwoReplaces(a, b) == [f \in DOMAIN b |-> b[f]]

\* Variant: the merge is written field by field from the update alone,
\* { name: b.name, version: b.version, environment: b.environment }, so a
\* field the update does not own becomes undefined.
SpreadTwoFieldByField(a, b) ==
  [f \in Fields |-> IF f \in DOMAIN b THEN b[f] ELSE "undefined"]

\* { ...a, ...b }: a's own fields, then b's own fields written over them.
SpreadTwo(a, b) ==
  [f \in DOMAIN a \cup DOMAIN b |-> IF f \in DOMAIN b THEN b[f] ELSE a[f]]

\* o[f] = v on an existing object: f is added when o does not own it.
SetField(o, f, v) ==
  [g \in DOMAIN o \cup {f} |-> IF g = f THEN v ELSE o[g]]

\* Variant: the banner interpolates the project name instead of the version.
BannerLineOfName(c) == "APEX Enhanced Framework v" \o c["name"] \o " initialized"

\* The template literals of initialize(). Each line of the source starts with
\* a pictograph and a space, which a string of this language cannot hold.
BannerLine(c) == "APEX Enhanced Framework v" \o c["version"] \o " initialized"
ProjectLine(c) == "Project: " \o c["name"]
EnvironmentLine(c) == "Environment: " \o c["environment"]

\* s occurs in line.
Contains(line, s) ==
  \E i \in 1..(Len(line) - Len(s) + 1) : SubSeq(line, i, i + Len(s) - 1) = s

\* ------------------------------------------------------------- Init ----
\* The caller has made no statement yet: no object, no holder, no output.
HolderStart ==
  /\ heap = <<>>
  /\ origin = <<>>
  /\ config = [h \in Holders |-> 0]
  /\ out = <<>>
  /\ returned = [h \in Holders |-> {}]
  /\ ctorArg = [h \in Holders |-> 0]
  /\ nUpdates = [h \in Holders |-> 0]
  /\ nInits = 0
  /\ announced = [h \in Holders |-> {}]
  /\ snapshot = [h \in Holders |-> {}]
  /\ nSteps = 0
  /\ lastOp = Op("start", "none", 0, 0)

\* No installer runs: no project directory, no script.
SetupOff ==
  /\ fs = <<>>
  /\ tmpl = "t1"
  /\ script = "off"
  /\ pc = "off"
  /\ tool = ""
  /\ stepNo = 1
  /\ asked = FALSE
  /\ answer = "unset"
  /\ fs0 = <<>>
  /\ ops = <<>>
  /\ run = 0

Init == HolderStart /\ SetupOff

\* ---------------------------------------------------- caller actions ----
\* The caller assigns to a field of an object it holds.
CallerSet(a, f, v) ==
  /\ Tick
  /\ a \in CallerHeld
  /\ heap' = [heap EXCEPT ![a] = SetField(@, f, v)]
  /\ heap' # heap
  /\ snapshot' = IF a \in Returned THEN snapshot ELSE [h \in DOMAIN snapshot |-> {}]
  /\ lastOp' = Op("set", "none", a, 0)
  /\ UNCHANGED <<origin, config, out, returned, ctorArg, nUpdates, nInits, announced>>

\* ---------------------------------------------------- ApexFramework ----
\* constructor(config) { this.config = config; }
Construct(h, x) ==
  /\ Tick
  /\ config[h] = 0
  /\ HeapWith(x)[AddrOf(x)] \in ApexConfig
  /\ heap' = HeapWith(x)
  /\ origin' = OriginWith(x)
  /\ config' = [config EXCEPT ![h] = AddrOf(x)]
  /\ ctorArg' = [ctorArg EXCEPT ![h] = AddrOf(x)]
  /\ lastOp' = Op("construct", h, AddrOf(x), 0)
  /\ UNCHANGED <<out, returned, nUpdates, nInits, announced, snapshot>>

\* Variant: initialize() also forces the environment of the held object,
\* this.config.environment = 'production'.
InitializeWritesConfig(h) ==
  /\ Tick
  /\ config[h] # 0
  /\ heap' = [heap EXCEPT ![config[h]] = SetField(@, "environment", "production")]
  /\ out' = out \o <<BannerLine(heap'[config[h]]),
                     ProjectLine(heap'[config[h]]),
                     EnvironmentLine(heap'[config[h]])>>
  /\ nInits' = nInits + 1
  /\ announced' = [announced EXCEPT ![h] = {SubSeq(out', Len(out) + 1, Len(out'))}]
  /\ lastOp' = Op("initialize", h, 0, 0)
  /\ UNCHANGED <<origin, config, returned, ctorArg, nUpdates, snapshot>>

\* initialize(): three console.log calls.
Initialize(h) ==
  /\ Tick
  /\ config[h] # 0
  /\ out' = out \o <<BannerLine(heap[config[h]]),
                     ProjectLine(heap[config[h]]),
                     EnvironmentLine(heap[config[h]])>>
  /\ nInits' = nInits + 1
  /\ announced' = [announced EXCEPT ![h] = {SubSeq(out', Len(out) + 1, Len(out'))}]
  /\ lastOp' = Op("initialize", h, 0, 0)
  /\ UNCHANGED <<heap, origin, config, returned, ctorArg, nUpdates, snapshot>>

\* Variant: getConfig() { return this.config; }
GetConfigShared(h) ==
  /\ Tick
  /\ config[h] # 0
  /\ returned' = [returned EXCEPT ![h] = @ \cup {config[h]}]
  /\ snapshot' = [snapshot EXCEPT ![h] = {heap[config[h]]}]
  /\ lastOp' = Op("getConfig", h, 0, config[h])
  /\ UNCHANGED <<heap, origin, config, out, ctorArg, nUpdates, nInits, announced>>

\* Variant: the copy is made once and handed out again on later calls.
GetConfigCached(h) ==
  /\ Tick
  /\ config[h] # 0
  /\ IF returned[h] = {}
       THEN /\ heap' = Append(heap, SpreadOne(heap[config[h]]))
            /\ origin' = Append(origin, "copy")
            /\ returned' = [returned EXCEPT ![h] = {Len(heap) + 1}]
            /\ lastOp' = Op("getConfig", h, 0, Len(heap) + 1)
       ELSE /\ UNCHANGED <<heap, origin, returned>>
            /\ lastOp' = Op("getConfig", h, 0, CHOOSE a \in returned[h] : TRUE)
  /\ snapshot' = [snapshot EXCEPT ![h] = {heap'[lastOp'.ret]}]
  /\ UNCHANGED <<config, out, ctorArg, nUpdates, nInits, announced>>

\* getConfig() { return { ...this.config }; }
GetConfig(h) ==
  /\ Tick
  /\ config[h] # 0
  /\ heap' = Append(heap, SpreadOne(heap[config[h]]))
  /\ origin' = Append(origin, "copy")
  /\ returned' = [returned EXCEPT ![h] = @ \cup {Len(heap) + 1}]
  /\ snapshot' = [snapshot EXCEPT ![h] = {heap'[Len(heap) + 1]}]
  /\ lastOp' = Op("getConfig", h, 0, Len(heap) + 1)
  /\ UNCHANGED <<config, out, ctorArg, nUpdates, nInits, announced>>

\* Variant: the merge is made in place,
\* Object.assign(this.config, updates).
UpdateConfigInPlace(h, x) ==
  /\ Tick
  /\ config[h] # 0
  /\ heap' = [HeapWith(x) EXCEPT ![config[h]] = SpreadTwo(@, HeapWith(x)[AddrOf(x)])]
  /\ origin' = OriginWith(x)
  /\ nUpdates' = [nUpdates EXCEPT ![h] = @ + 1]
  /\ announced' = [announced EXCEPT ![h] = {}]
  /\ snapshot' = [snapshot EXCEPT ![h] = {}]
  /\ lastOp' = Op("updateConfig", h, AddrOf(x), 0)
  /\ UNCHANGED <<config, out, returned, ctorArg, nInits>>

\* Variant: the holder keeps what it handed out up to date,
\* for (const c of this.handedOut) Object.assign(c, updates).
UpdateConfigWritesReturned(h, x) ==
  /\ Tick
  /\ config[h] # 0
  /\ heap' = Append([a \in 1..Len(HeapWith(x)) |->
                       IF a \in returned[h]
                       THEN SpreadTwo(HeapWith(x)[a], HeapWith(x)[AddrOf(x)])
                       ELSE HeapWith(x)[a]],
                    SpreadTwo(HeapWith(x)[config[h]], HeapWith(x)[AddrOf(x)]))
  /\ origin' = Append(OriginWith(x), "merged")
  /\ config' = [config EXCEPT ![h] = Len(HeapWith(x)) + 1]
  /\ nUpdates' = [nUpdates EXCEPT ![h] = @ + 1]
  /\ announced' = [announced EXCEPT ![h] = {}]
  /\ snapshot' = [snapshot EXCEPT ![h] = {}]
  /\ lastOp' = Op("updateConfig", h, AddrOf(x), 0)
  /\ UNCHANGED <<out, returned, ctorArg, nInits>>

\* Variant: the merge is written into the argument, which the holder keeps,
\* this.config = Object.assign(updates, { ...this.config, ...updates }).
UpdateConfigKeepsArgument(h, x) ==
  /\ Tick
  /\ config[h] # 0
  /\ heap' = [HeapWith(x) EXCEPT ![AddrOf(x)] = SpreadTwo(HeapWith(x)[config[h]], @)]
  /\ origin' = OriginWith(x)
  /\ config' = [config EXCEPT ![h] = AddrOf(x)]
  /\ nUpdates' = [nUpdates EXCEPT ![h] = @ + 1]
  /\ announced' = [announced EXCEPT ![h] = {}]
  /\ snapshot' = [snapshot EXCEPT ![h] = {}]
  /\ lastOp' = Op("updateConfig", h, AddrOf(x), 0)
  /\ UNCHANGED <<out, returned, ctorArg, nInits>>

\* Variant: updateConfig logs the new project name,
\* console.log(`Project: ${this.config.name}`) after the merge.
UpdateConfigLogs(h, x) ==
  /\ Tick
  /\ config[h] # 0
  /\ heap' = Append(HeapWith(x),
                    SpreadTwo(HeapWith(x)[config[h]], HeapWith(x)[AddrOf(x)]))
  /\ origin' = Append(OriginWith(x), "merged")
  /\ config' = [config EXCEPT ![h] = Len(HeapWith(x)) + 1]
  /\ out' = Append(out, ProjectLine(heap'[config'[h]]))
  /\ nUpdates' = [nUpdates EXCEPT ![h] = @ + 1]
  /\ announced' = [announced EXCEPT ![h] = {}]
  /\ snapshot' = [snapshot EXCEPT ![h] = {}]
  /\ lastOp' = Op("updateConfig", h, AddrOf(x), 0)
  /\ UNCHANGED <<returned, ctorArg, nInits>>

\* updateConfig(updates) { this.config = { ...this.config, ...updates }; }
UpdateConfig(h, x) ==
  /\ Tick
  /\ config[h] # 0
  /\ heap' = Append(HeapWith(x),
                    SpreadTwo(HeapWith(x)[config[h]], HeapWith(x)[AddrOf(x)]))
  /\ origin' = Append(OriginWith(x), "merged")
  /\ config' = [config EXCEPT ![h] = Len(HeapWith(x)) + 1]
  /\ nUpdates' = [nUpdates EXCEPT ![h] = @ + 1]
  /\ announced' = [announced EXCEPT ![h] = {}]
  /\ snapshot' = [snapshot EXCEPT ![h] = {}]
  /\ lastOp' = Op("updateConfig", h, AddrOf(x), 0)
  /\ UNCHANGED <<out, returned, ctorArg, nInits>>

\* Variant: the factory hands the constructor a copy of its argument,
\* return new ApexFramework({ ...config }).
CreateApexFrameworkCopies(h, x) ==
  /\ Tick
  /\ config[h] = 0
  /\ HeapWith(x)[AddrOf(x)] \in ApexConfig
  /\ heap' = Append(HeapWith(x), SpreadOne(HeapWith(x)[AddrOf(x)]))
  /\ origin' = Append(OriginWith(x), "merged")
  /\ config' = [config EXCEPT ![h] = Len(HeapWith(x)) + 1]
  /\ ctorArg' = [ctorArg EXCEPT ![h] = Len(HeapWith(x)) + 1]
  /\ lastOp' = Op("create", h, AddrOf(x), 0)
  /\ UNCHANGED <<out, returned, nUpdates, nInits, announced, snapshot>>

\* createApexFramework(config) { return new ApexFramework(config); }
\* The constructor runs on the factory's own parameter: this.config = config.
CreateApexFramework(h, x) ==
  /\ Tick
  /\ config[h] = 0
  /\ HeapWith(x)[AddrOf(x)] \in ApexConfig
  /\ heap' = HeapWith(x)
  /\ origin' = OriginWith(x)
  /\ config' = [config EXCEPT ![h] = AddrOf(x)]
  /\ ctorArg' = [ctorArg EXCEPT ![h] = AddrOf(x)]
  /\ lastOp' = Op("create", h, AddrOf(x), 0)
  /\ UNCHANGED <<out, returned, nUpdates, nInits, announced, snapshot>>

\* One statement of the caller.
Next ==
  \/ Running /\ \E a \in Addrs, f \in Fields : \E v \in FieldValues(f) :
                   CallerSet(a, f, v)
  \/ Running /\ \E h \in Holders, x \in ConfigArgs : Construct(h, x)
  \/ Running /\ \E h \in Holders, x \in ConfigArgs : CreateApexFramework(h, x)
  \/ Running /\ \E h \in Holders : Initialize(h)
  \/ Running /\ \E h \in Holders : GetConfig(h)
  \/ Running /\ \E h \in Holders, x \in UpdateArgs : UpdateConfig(h, x)

Spec == Init /\ [][Next]_vars

\* What h.getConfig() returns in the current state.
GetConfigResult(h) == SpreadOne(heap[config[h]])

\* What h.initialize() writes in the current state.
InitializeResult(h) ==
  <<BannerLine(heap[config[h]]), ProjectLine(heap[config[h]]),
    EnvironmentLine(heap[config[h]])>>

\* ------------------------------------------------------ two holders ----
\* A caller with two holders that has made no statement yet.
PairStart ==
  /\ heap = <<>>
  /\ origin = <<>>
  /\ config = [h \in TwoHolders |-> 0]
  /\ out = <<>>
  /\ returned = [h \in TwoHolders |-> {}]
  /\ ctorArg = [h \in TwoHolders |-> 0]
  /\ nUpdates = [h \in TwoHolders |-> 0]
  /\ nInits = 0
  /\ announced = [h \in TwoHolders |-> {}]
  /\ snapshot = [h \in TwoHolders |-> {}]
  /\ nSteps = 0
  /\ lastOp = Op("start", "none", 0, 0)

InitPair == PairStart /\ SetupOff

\* The caller has statements left.
PairRunning == nSteps < MaxPairSteps

\* One statement of the caller with two holders.
NextPair ==
  \/ PairRunning /\ \E a \in Addrs, f \in Fields : \E v \in FieldValues(f) :
                       CallerSet(a, f, v)
  \/ PairRunning /\ \E h \in TwoHolders, x \in ConfigArgs : Construct(h, x)
  \/ PairRunning /\ \E h \in TwoHolders, x \in ConfigArgs : CreateApexFramework(h, x)
  \/ PairRunning /\ \E h \in TwoHolders : Initialize(h)
  \/ PairRunning /\ \E h \in TwoHolders : GetConfig(h)
  \/ PairRunning /\ \E h \in TwoHolders, x \in UpdateArgs : UpdateConfig(h, x)

SpecPair == InitPair /\ [][NextPair]_vars

\* ------------------------------------------- successive updateConfig ----
\* The arguments of updateConfig of a caller that writes any partial
\* configuration as a literal.
ComposeArgs == {Lit(o) : o \in PartialConfigs} \cup {Ref(a) : a \in CallerHeld}

\* The caller has statements left.
ComposeRunning == nSteps < MaxComposeSteps

\* One statement of a caller that constructs a holder and then only calls
\* updateConfig.
NextCompose ==
  \/ ComposeRunning /\ \E h \in Holders, x \in ConfigArgs : Construct(h, x)
  \/ ComposeRunning /\ \E h \in Holders, x \in ComposeArgs : UpdateConfig(h, x)

SpecCompose == Init /\ [][NextCompose]_vars

\* ------------------------------------------- installer: file system ----
IsDir(f, p) == f[p] = "dir"
IsFile(f, p) == f[p] \in Contents
Exists(f, p) == f[p] # "none"
\* The directory the path lies in is there.
InDir(f, p) == Parent(p) = "." \/ f[Parent(p)] = "dir"

\* A command a script has executed: cmd is "mkdir" or "cp", path the argument
\* the script gave, to the path written, ok whether the command succeeded.
Cmd(c, p, t, k) == [cmd |-> c, path |-> p, to |-> t, ok |-> k]
\* The result of a helper: the file system, whether the script goes on, and
\* the commands executed.
Res(f, k, o) == [fs |-> f, ok |-> k, ops |-> o]

\* mkdir -p / New-Item -ItemType Directory: fails on a regular file at the
\* path or above it, creates the missing directories otherwise.
Mkdir(f, p) ==
  IF f[p] = "none" /\ (Parent(p) = "." \/ f[Parent(p)] \in {"none", "dir"})
  THEN Res([q \in Paths |-> IF q \in {p, Parent(p)} THEN "dir" ELSE f[q]],
           TRUE, <<Cmd("mkdir", p, p, TRUE)>>)
  ELSE IF f[p] = "dir" THEN Res(f, TRUE, <<Cmd("mkdir", p, p, TRUE)>>)
  ELSE Res(f, FALSE, <<Cmd("mkdir", p, p, FALSE)>>)

\* Where a copy to a path that is a directory lands: in the directory, under
\* the name of the source file. Only .cursorrules can be a directory here.
Into(p) == IF p = ".cursorrules" THEN ".cursorrules/.cursorrules" ELSE p

\* cp / Copy-Item of a template file with content c: writes into the
\* destination when that is a directory, fails when the directory the
\* destination lies in is missing, writes the destination otherwise.
Cp(f, p, c) ==
  IF f[p] = "dir"
  THEN Res([f EXCEPT ![Into(p)] = c], TRUE, <<Cmd("cp", p, Into(p), TRUE)>>)
  ELSE IF InDir(f, p)
  THEN Res([f EXCEPT ![p] = c], TRUE, <<Cmd("cp", p, p, TRUE)>>)
  ELSE Res(f, FALSE, <<Cmd("cp", p, p, FALSE)>>)

\* --------------------------------------------------- installer: setup.sh ----
\* create_dir: [ ! -d "$1" ] && mkdir -p "$1"; a failing mkdir ends the
\* script (set -e).
create_dir(f, p) == IF ~IsDir(f, p) THEN Mkdir(f, p) ELSE Res(f, TRUE, <<>>)

\* copy_file: [ ! -f "$2" ] && cp "$1" "$2".
copy_file(f, p, c) == IF ~IsFile(f, p) THEN Cp(f, p, c) ELSE Res(f, TRUE, <<>>)

\* A detection that tests for Cursor before Claude.
DetectShCursorFirst(f) ==
  IF IsFile(f, ".cursorrules") THEN "cursor"
  ELSE IF IsDir(f, ".claude") THEN "claude"
  ELSE IF IsDir(f, ".github/copilot") THEN "copilot"
  ELSE IF IsFile(f, ".continue/config.json") THEN "continue"
  ELSE ""

\* The detection of setup.sh; "" when no tool is detected.
DetectSh(f) ==
  IF IsDir(f, ".claude") THEN "claude"
  ELSE IF IsFile(f, ".cursorrules") THEN "cursor"
  ELSE IF IsDir(f, ".github/copilot") THEN "copilot"
  ELSE IF IsFile(f, ".continue/config.json") THEN "continue"
  ELSE ""

\* -------------------------------------------------- installer: setup.ps1 ----
\* Create-DirectoryIfNotExists: Test-Path is true of files and directories;
\* a failing New-Item ends the script ($ErrorActionPreference = "Stop").
CreateDirectoryIfNotExists(f, p) ==
  IF ~Exists(f, p) THEN Mkdir(f, p) ELSE Res(f, TRUE, <<>>)

\* Copy-FileIfNotExists.
CopyFileIfNotExists(f, p, c) ==
  IF ~Exists(f, p) THEN Cp(f, p, c) ELSE Res(f, TRUE, <<>>)

\* The detection of setup.ps1.
DetectPs1(f) ==
  IF Exists(f, ".claude") THEN "claude"
  ELSE IF Exists(f, ".cursorrules") THEN "cursor"
  ELSE IF Exists(f, ".github/copilot") THEN "copilot"
  ELSE IF Exists(f, ".continue/config.json") THEN "continue"
  ELSE ""

\* ----------------------------------------------- installer: both scripts ----
Detect(s, f) == IF s = "sh" THEN DetectSh(f) ELSE DetectPs1(f)

\* The menu: 1..5 select a tool, anything else is an invalid choice.
MenuTool(c) ==
  CASE c = "1" -> "claude"
    [] c = "2" -> "cursor"
    [] c = "3" -> "copilot"
    [] c = "4" -> "continue"
    [] c = "5" -> "manual"
    [] OTHER -> "invalid"

Dir(p) == [cmd |-> "dir", path |-> p]
File(p) == [cmd |-> "file", path |-> p]

\* A setup case that creates .continue for the tool continue.
SetupStepsContinueDir(t) ==
  CASE t = "claude" ->
         <<Dir(".claude"), Dir(".claude/commands"), File(".claude/apex.md"),
           File(".claude/commands/apex-feature.md"),
           File(".claude/commands/apex-task.md"),
           File(".claude/commands/apex-review.md"),
           File(".claude/commands/apex-commit.md")>>
    [] t = "cursor" -> <<File(".cursorrules")>>
    [] t = "copilot" ->
         <<Dir(".github"), Dir(".github/copilot"),
           File(".github/copilot/instructions.md")>>
    [] t = "continue" -> <<Dir(".continue")>>
    [] OTHER -> <<>>

\* The commands of the setup case of a tool, in order.
SetupSteps(t) ==
  CASE t = "claude" ->
         <<Dir(".claude"), Dir(".claude/commands"), File(".claude/apex.md"),
           File(".claude/commands/apex-feature.md"),
           File(".claude/commands/apex-task.md"),
           File(".claude/commands/apex-review.md"),
           File(".claude/commands/apex-commit.md")>>
    [] t = "cursor" -> <<File(".cursorrules")>>
    [] t = "copilot" ->
         <<Dir(".github"), Dir(".github/copilot"),
           File(".github/copilot/instructions.md")>>
    [] OTHER -> <<>>

\* One command of the setup case, as script s executes it.
ExecStep(s, f, st, c) ==
  IF st.cmd = "dir"
  THEN IF s = "sh" THEN create_dir(f, st.path)
       ELSE CreateDirectoryIfNotExists(f, st.path)
  ELSE IF s = "sh" THEN copy_file(f, st.path, c)
       ELSE CopyFileIfNotExists(f, st.path, c)

\* The setup case from command i on.
RECURSIVE RunSteps(_, _, _, _, _, _)
RunSteps(s, f, steps, i, c, log) ==
  IF i > Len(steps)
  THEN [fs |-> f, ops |-> log, outcome |-> "complete"]
  ELSE LET r == ExecStep(s, f, steps[i], c)
       IN  IF r.ok THEN RunSteps(s, r.fs, steps, i + 1, c, log \o r.ops)
           ELSE [fs |-> r.fs, ops |-> log \o r.ops, outcome |-> "exit1"]

\* A whole run of script s in project f, the user answering a if asked and
\* the templates having content c.
RunScript(s, f, a, c) ==
  LET d == Detect(s, f)
      t == IF d = "" THEN MenuTool(a) ELSE d
  IN  IF t = "invalid"
      THEN [tool |-> "", fs |-> f, ops |-> <<>>, outcome |-> "exit1"]
      ELSE [tool |-> t] @@ RunSteps(s, f, SetupSteps(t), 1, c, <<>>)

\* ----------------------------------------------------- installer: Init ----
\* A project, a script and a fresh APEX checkout; the script not yet run.
SetupStart ==
  /\ fs \in Layouts
  /\ tmpl = "t1"
  /\ script \in Scripts
  /\ pc = "ready"
  /\ tool = ""
  /\ stepNo = 1
  /\ asked = FALSE
  /\ answer = "unset"
  /\ fs0 = fs
  /\ ops = <<>>
  /\ run = 0

InitSetup == HolderStart /\ SetupStart

\* -------------------------------------------------- installer: actions ----
\* The user starts the script (again).
StartRun ==
  /\ pc \in {"ready", "done"}
  /\ run < MaxRuns
  /\ pc' = "detect"
  /\ run' = run + 1
  /\ tool' = ""
  /\ stepNo' = 1
  /\ asked' = FALSE
  /\ fs0' = fs
  /\ ops' = <<>>
  /\ UNCHANGED <<fs, tmpl, script, answer, hvars>>

\* git pull in the APEX checkout between two runs: the templates change.
PullUpdates ==
  /\ pc = "done"
  /\ tmpl = "t1"
  /\ tmpl' = "t2"
  /\ UNCHANGED <<fs, script, pc, tool, stepNo, asked, answer, fs0, ops, run, hvars>>

\* Detect AI tool.
DetectTool ==
  /\ pc = "detect"
  /\ tool' = Detect(script, fs)
  /\ pc' = IF tool' = "" THEN "menu" ELSE "setup"
  /\ UNCHANGED <<fs, tmpl, script, stepNo, asked, answer, fs0, ops, run, hvars>>

\* A menu that goes on to the setup case whatever the user types.
MenuAcceptsAnything(c) ==
  /\ pc = "menu"
  /\ answer \in {"unset", c}
  /\ asked' = TRUE
  /\ answer' = c
  /\ pc' = "setup"
  /\ tool' = IF MenuTool(c) = "invalid" THEN "manual" ELSE MenuTool(c)
  /\ UNCHANGED <<fs, tmpl, script, stepNo, fs0, ops, run, hvars>>

\* If no tool detected, ask: the user types c, the same at every run.
Menu(c) ==
  /\ pc = "menu"
  /\ answer \in {"unset", c}
  /\ asked' = TRUE
  /\ answer' = c
  /\ IF MenuTool(c) = "invalid"
     THEN pc' = "exit1" /\ tool' = tool
     ELSE pc' = "setup" /\ tool' = MenuTool(c)
  /\ UNCHANGED <<fs, tmpl, script, stepNo, fs0, ops, run, hvars>>

\* The next command of the setup case is a create_dir.
CreateDir ==
  /\ pc = "setup"
  /\ stepNo <= Len(SetupSteps(tool))
  /\ SetupSteps(tool)[stepNo].cmd = "dir"
  /\ LET r == ExecStep(script, fs, SetupSteps(tool)[stepNo], tmpl)
     IN  /\ fs' = r.fs
         /\ ops' = ops \o r.ops
         /\ IF r.ok THEN pc' = pc /\ stepNo' = stepNo + 1
            ELSE pc' = "error" /\ stepNo' = stepNo
  /\ UNCHANGED <<tmpl, script, tool, asked, answer, fs0, run, hvars>>

\* The next command of the setup case is a copy_file.
CopyFile ==
  /\ pc = "setup"
  /\ stepNo <= Len(SetupSteps(tool))
  /\ SetupSteps(tool)[stepNo].cmd = "file"
  /\ LET r == ExecStep(script, fs, SetupSteps(tool)[stepNo], tmpl)
     IN  /\ fs' = r.fs
         /\ ops' = ops \o r.ops
         /\ IF r.ok THEN pc' = pc /\ stepNo' = stepNo + 1
            ELSE pc' = "error" /\ stepNo' = stepNo
  /\ UNCHANGED <<tmpl, script, tool, asked, answer, fs0, run, hvars>>

\* The end of the setup case: "setup complete".
Complete ==
  /\ pc = "setup"
  /\ stepNo > Len(SetupSteps(tool))
  /\ pc' = "done"
  /\ UNCHANGED <<fs, tmpl, script, tool, stepNo, asked, answer, fs0, ops, run, hvars>>

NextSetup ==
  \/ StartRun
  \/ PullUpdates
  \/ DetectTool
  \/ \E c \in Choices : Menu(c)
  \/ CreateDir
  \/ CopyFile
  \/ Complete

SpecSetup == InitSetup /\ [][NextSetup]_vars

\* A script that has reached the end of its setup case goes on to the next
\* line: it does not stop by itself.
SpecSetupFair == InitSetup /\ [][NextSetup]_vars /\ WF_vars(Complete)

\* ============================================================ claims ====

\* C1: the constructor copies its argument: an assignment to a field of the
\* object passed to the constructor, made before any updateConfig, does not
\* change what getConfig() returns.
C1_ConstructorCopies ==
  [][\A h \in Holders :
       (/\ config[h] # 0
        /\ nUpdates[h] = 0
        /\ lastOp'.op = "set"
        /\ lastOp'.arg = ctorArg[h])
       => GetConfigResult(h)' = GetConfigResult(h)]_vars

\* C2: getConfig() returns a defensive copy: an assignment to a field of an
\* object that h.getConfig() returned does not change what h.getConfig()
\* returns next.
C2_GetConfigDefensiveCopy ==
  [][\A h \in Holders :
       (/\ config[h] # 0
        /\ lastOp'.op = "set"
        /\ lastOp'.arg \in returned[h])
       => GetConfigResult(h)' = GetConfigResult(h)]_vars

\* A returned copy has been assigned to and now differs from the holder's
\* configuration.
C2_Witness ==
  \E h \in Holders :
    /\ lastOp.op = "set"
    /\ lastOp.arg \in returned[h]
    /\ heap[lastOp.arg] # GetConfigResult(h)

\* C3: updateConfig(p) is a field-wise merge: afterwards each field p owns has
\* p's value and each field p does not own has the value held before.
C3_UpdateConfigMerges ==
  [][\A h \in Holders :
       (lastOp'.op = "updateConfig" /\ lastOp'.holder = h)
       => LET p == heap'[lastOp'.arg]
              c == GetConfigResult(h)
              r == GetConfigResult(h)'
          IN /\ DOMAIN r = Fields
             /\ \A f \in Fields :
                  r[f] = IF f \in DOMAIN p THEN p[f] ELSE c[f]]_vars

\* An update that owns name and version but not environment has been merged
\* into a configuration with other values.
C3_Witness ==
  \E h \in Holders :
    /\ lastOp.op = "updateConfig"
    /\ lastOp.holder = h
    /\ DOMAIN heap[lastOp.arg] = {"name", "version"}
    /\ heap[ctorArg[h]]["name"] # heap[lastOp.arg]["name"]
    /\ GetConfigResult(h)["environment"] = heap[ctorArg[h]]["environment"]

\* C4: before any updateConfig, getConfig() of a holder constructed from c
\* returns an object with exactly the three fields, each equal to c's.
C4_GetConfigEqualsInitial ==
  \A h \in Holders :
    (lastOp.op = "getConfig" /\ lastOp.holder = h /\ nUpdates[h] = 0)
    => /\ DOMAIN heap[lastOp.ret] = Fields
       /\ \A f \in Fields : heap[lastOp.ret][f] = heap[ctorArg[h]][f]

\* getConfig() has just returned, right after construction from defaultConfig.
C4_Witness ==
  \E h \in Holders :
    /\ lastOp.op = "getConfig"
    /\ lastOp.holder = h
    /\ nUpdates[h] = 0
    /\ nSteps = 2
    /\ heap[lastOp.ret] =
         [name |-> "Test Project", version |-> "1.0.0", environment |-> "test"]

\* C5: updateConfig({}) leaves the held configuration unchanged.
C5_EmptyUpdateNoChange ==
  [][\A h \in Holders :
       (/\ lastOp'.op = "updateConfig"
        /\ lastOp'.holder = h
        /\ DOMAIN heap'[lastOp'.arg] = {})
       => GetConfigResult(h)' = GetConfigResult(h)]_vars

\* updateConfig has just been called with an object that owns no field.
C5_Witness ==
  /\ lastOp.op = "updateConfig"
  /\ DOMAIN heap[lastOp.arg] = {}

\* C6: each initialize() appends exactly three lines and nothing else: a
\* banner line with the held version, a Project line with the held name, an
\* Environment line with the held environment, in this order.
C6_InitializeEmitsThreeLines ==
  [][\A h \in Holders :
       (lastOp'.op = "initialize" /\ lastOp'.holder = h)
       => LET n == Len(out)
              c == GetConfigResult(h)
          IN /\ Len(out') = n + 3
             /\ SubSeq(out', 1, n) = out
             /\ Contains(out'[n + 1], "Framework")
             /\ Contains(out'[n + 1], c["version"])
             /\ Contains(out'[n + 2], "Project")
             /\ Contains(out'[n + 2], c["name"])
             /\ Contains(out'[n + 3], "Environment")
             /\ Contains(out'[n + 3], c["environment"])]_vars

\* initialize() has just written the three lines of the unit test.
C6_Witness ==
  /\ lastOp.op = "initialize"
  /\ out = <<"APEX Enhanced Framework v1.0.0 initialized",
             "Project: Test Project",
             "Environment: test">>

\* C7: the lines of initialize() are those of the configuration held at the
\* call, and two initialize() calls of a holder with no updateConfig between
\* them write the same three lines.
C7_InitializeReflectsHeld ==
  [][\A h \in Holders :
       (lastOp'.op = "initialize" /\ lastOp'.holder = h)
       => LET lines == SubSeq(out', Len(out) + 1, Len(out'))
              c == GetConfigResult(h)
          IN /\ Len(lines) = 3
             /\ Contains(lines[1], c["version"])
             /\ Contains(lines[2], c["name"])
             /\ Contains(lines[3], c["environment"])
             /\ announced[h] # {} => announced[h] = {lines}]_vars

\* C8: initialize() does not mutate the holder: no object and no field
\* this.config changes, so getConfig() returns the same before and after.
C8_InitializeDoesNotMutate ==
  [][lastOp'.op = "initialize"
       => /\ heap' = heap
          /\ config' = config
          /\ \A h \in Holders :
               config[h] # 0 => GetConfigResult(h)' = GetConfigResult(h)]_vars

\* initialize() has just run on a holder whose configuration is the result of
\* an updateConfig.
C8_Witness ==
  \E h \in Holders :
    /\ lastOp.op = "initialize"
    /\ lastOp.holder = h
    /\ nUpdates[h] > 0
    /\ origin[config[h]] = "merged"

\* C9: only initialize() writes to the output: every other statement leaves
\* the lines as they are, and after n calls of initialize() there are 3n lines.
C9_OnlyInitializeWrites ==
  [][/\ lastOp'.op # "initialize" => out' = out
     /\ Len(out') = 3 * nInits']_vars

\* Two initialize() calls, then an updateConfig or a getConfig: six lines.
C9_Witness ==
  /\ nInits = 2
  /\ lastOp.op \in {"updateConfig", "getConfig"}
  /\ Len(out) = 6

\* C10: two getConfig() calls of a holder return equal values when between
\* them there is no updateConfig, whatever calls of initialize() and
\* assignments to returned copies there are.
C10_GetConfigRepeatable ==
  [][\A h \in Holders :
       (lastOp'.op = "getConfig" /\ lastOp'.holder = h /\ snapshot[h] # {})
       => snapshot[h] = {heap'[lastOp'.ret]}]_vars

\* A second getConfig() has just returned, after an initialize() and an
\* assignment to the first copy, which now differs from the second.
C10_Witness ==
  \E h \in Holders :
    /\ lastOp.op = "getConfig"
    /\ lastOp.holder = h
    /\ snapshot[h] = {heap[lastOp.ret]}
    /\ nInits > 0
    /\ \E a \in returned[h] : a # lastOp.ret /\ heap[a] # heap[lastOp.ret]
    /\ heap[ctorArg[h]] \in ConfigLiterals

\* C11: every getConfig() returns a new object, at an address no earlier
\* call returned and nothing else refers to; an assignment to a returned copy
\* changes that object alone, neither the holder nor another copy.
C11_GetConfigFreshObject ==
  [][/\ lastOp'.op = "getConfig"
          => /\ lastOp'.ret \notin Addrs
             /\ lastOp'.ret \notin Returned
             /\ \A h \in Holders : config'[h] # lastOp'.ret
     /\ (lastOp'.op = "set" /\ lastOp'.arg \in Returned)
          => /\ \A b \in Addrs \ {lastOp'.arg} : heap'[b] = heap[b]
             /\ \A h \in Holders :
                  config[h] # 0 => GetConfigResult(h)' = GetConfigResult(h)]_vars

\* Two copies have been returned and one has been assigned to: the other still
\* equals the holder's configuration, the assigned one does not.
C11_Witness ==
  \E h \in Holders :
    /\ lastOp.op = "set"
    /\ lastOp.arg \in returned[h]
    /\ \E b \in returned[h] \ {lastOp.arg} :
         /\ heap[b] = GetConfigResult(h)
         /\ heap[b] # heap[lastOp.arg]

\* C12: the environment held is always one of development, production, test
\* (the configurations and updates of the caller carry only these).
C12_EnvironmentEnumerated ==
  \A h \in Holders :
    config[h] # 0
    => /\ "environment" \in DOMAIN heap[config[h]]
       /\ heap[config[h]]["environment"] \in {"development", "production", "test"}

\* After an update that owns an environment, an update that owns none: the
\* holder keeps the environment of the first.
C12_Witness ==
  \E h \in Holders :
    /\ lastOp.op = "updateConfig"
    /\ lastOp.holder = h
    /\ nUpdates[h] = 2
    /\ "environment" \notin DOMAIN heap[lastOp.arg]
    /\ heap[config[h]]["environment"] = "production"
    /\ heap[ctorArg[h]]["environment"] # "production"

\* C13: createApexFramework(c) leaves the program in the state that
\* new ApexFramework(c) leaves it in: the holder refers to the object c itself,
\* nothing else is allocated, written or logged; every later call therefore
\* returns and logs the same for both.
C13_FactoryIsConstructor ==
  [][\A h \in Holders :
       (lastOp'.op = "create" /\ lastOp'.holder = h)
       => \E x \in ConfigArgs :
            /\ config[h] = 0
            /\ heap' = HeapWith(x)
            /\ origin' = OriginWith(x)
            /\ config' = [config EXCEPT ![h] = AddrOf(x)]
            /\ ctorArg' = [ctorArg EXCEPT ![h] = AddrOf(x)]
            /\ UNCHANGED <<out, returned, nUpdates, nInits, announced, snapshot>>]_vars

\* The factory has just made a holder of the development configuration of
\* its unit test.
C13_Witness ==
  \E h \in Holders :
    /\ lastOp.op = "create"
    /\ lastOp.holder = h
    /\ config[h] = lastOp.arg
    /\ heap[config[h]]["environment"] = "development"

\* ---------------------------------------------------------------- C15 ----
\* C15: the installer never overwrites. Every regular file of the project
\* keeps its content through every command of a run, and every copy a
\* script executes has a destination at which nothing existed.
C15_NeverOverwrites ==
  [][/\ \A p \in Paths : IsFile(fs, p) => fs'[p] = fs[p]
     /\ \A i \in (Len(ops) + 1)..Len(ops') :
          (ops'[i].cmd = "cp" /\ ops'[i].ok) => ~Exists(fs, ops'[i].path)]_vars

\* ---------------------------------------------------------------- C16 ----
\* C16: the installer is idempotent. In a run started on the project a
\* completed run left, the user giving the same answer if asked, no mkdir
\* and no cp is executed and the file system stays as the run found it.
C16_SecondRunChangesNothing ==
  run >= 2 => (ops = <<>> /\ fs = fs0)

\* ---------------------------------------------------------------- C17 ----
\* The files of the project that came from the templates.
InstalledFiles(f) == {p \in Paths : f[p] \in {"t1", "t2"}}

\* C17: updating by re-running setup. When a run in a project where APEX
\* was installed by an earlier run completes after the templates have
\* changed, every installed file of the project has the content of the
\* latest templates.
C17_RerunInstallsLatest ==
  [][(pc = "setup" /\ pc' = "done" /\ run >= 2 /\ tmpl = "t2")
       => \A p \in InstalledFiles(fs') : fs'[p] = tmpl]_vars

\* ---------------------------------------------------------------- C18 ----
\* The path whose presence marks a project of tool t.
MarkerOf(t) ==
  CASE t = "claude" -> ".claude"
    [] t = "cursor" -> ".cursorrules"
    [] t = "copilot" -> ".github/copilot"
    [] t = "continue" -> ".continue/config.json"

\* C18: once the detection of a run is over, the menu is or has been shown
\* if and only if none of the four markers was present when the run
\* started; when a marker was present, the tool set up is one whose marker
\* was present.
C18_MenuIffNoMarker ==
  pc \in {"menu", "setup", "done", "exit1", "error"}
  => /\ (pc = "menu" \/ asked) <=> (\A m \in Markers : ~Exists(fs0, m))
     /\ (\E m \in Markers : Exists(fs0, m))
          => /\ tool \in {"claude", "cursor", "copilot", "continue"}
             /\ Exists(fs0, MarkerOf(tool))

\* ---------------------------------------------------------------- C19 ----
\* What a run shows of itself: the tool selected, the directories created,
\* the template files copied with their destinations, and the outcome.
Observed(r) ==
  [tool |-> r.tool,
   dirs |-> {r.ops[i].to : i \in {j \in 1..Len(r.ops) : r.ops[j].cmd = "mkdir" /\ r.ops[j].ok}},
   files |-> {<<r.ops[i].path, r.ops[i].to>> :
                i \in {j \in 1..Len(r.ops) : r.ops[j].cmd = "cp" /\ r.ops[j].ok}},
   outcome |-> r.outcome]

\* C19: the bash and PowerShell installers are equivalent. In every project
\* in which a run can start and for every menu answer, setup.sh and
\* setup.ps1 select the same tool, create the same directories, copy the
\* same files to the same destinations and end with the same outcome.
C19_ScriptsEquivalent ==
  pc \in {"ready", "done"}
  => \A a \in Choices :
       Observed(RunScript("sh", fs, a, tmpl)) = Observed(RunScript("ps1", fs, a, tmpl))

\* ---------------------------------------------------------------- C20 ----
\* C20: directories are created before files are copied into them. No cp
\* with a destination in .claude, .claude/commands or .github/copilot is
\* executed, successfully or not, while that directory does not exist; and
\* when a run for claude completes, the two directories and the five files
\* exist, when a run for copilot completes, .github/copilot/instructions.md
\* exists.
C20_DirectoriesBeforeFiles ==
  [][/\ \A i \in (Len(ops) + 1)..Len(ops') :
          (/\ ops'[i].cmd = "cp"
           /\ Parent(ops'[i].path) \in {".claude", ".claude/commands", ".github/copilot"})
          => IsDir(fs, Parent(ops'[i].path))
     /\ (pc' = "done" /\ tool' = "claude")
          => /\ IsDir(fs', ".claude") /\ IsDir(fs', ".claude/commands")
             /\ \A p \in ClaudePaths \ {".claude", ".claude/commands"} : Exists(fs', p)
     /\ (pc' = "done" /\ tool' = "copilot")
          => Exists(fs', ".github/copilot/instructions.md")]_vars

\* ---------------------------------------------------------------- C21 ----
\* The tools the detection knows, in the order of its tests.
ToolOrder == <<"claude", "cursor", "copilot", "continue">>

\* The test script s makes for tool t: setup.sh asks for a directory
\* (claude, copilot) or a regular file (cursor, continue), setup.ps1 for
\* anything at the path.
Marked(s, f, t) ==
  IF s = "ps1" THEN Exists(f, MarkerOf(t))
  ELSE IF t \in {"claude", "copilot"} THEN IsDir(f, MarkerOf(t))
  ELSE IsFile(f, MarkerOf(t))

C22_InvalidChoiceExits ==
  [][/\ (pc = "menu" /\ answer' \notin {"1", "2", "3", "4", "5"})
          => (pc' = "exit1" /\ ops' = <<>> /\ fs' = fs0)
     /\ pc = "exit1" => (pc' = "exit1" /\ ops' = <<>> /\ fs' = fs0)]_vars

\* A run that asked, got an answer outside 1..5 and exited.
C22_Witness ==
  pc = "exit1" /\ asked /\ answer = "x" /\ tool = ""

\* ---------------------------------------------------------------- C23 ----
\* C23: for the tools continue and manual a run changes nothing. While the
\* tool of the run is continue or manual no mkdir and no cp has been
\* executed, the file system is as the run found it and the script has not
\* failed; and such a run reaches "setup complete".
C23_ContinueManualChangeNothing ==
  /\ [][tool' \in {"continue", "manual"}
          => (ops' = <<>> /\ fs' = fs0' /\ pc' \in {"setup", "done"})]_vars
  /\ (tool \in {"continue", "manual"} /\ pc = "setup") ~> (pc = "done")

\* A completed run for continue and one for manual were possible: here a
\* completed run whose tool is manual in a project that is not empty.
C23_Witness ==
  /\ pc = "done"
  /\ tool = "manual"
  /\ \E p \in Paths : Exists(fs, p)

\* ---------------------------------------------------------------- C24 ----
\* The calls into the holder: the constructor, the factory and the methods.
HolderOps == {"construct", "create", "initialize", "getConfig", "updateConfig"}

\* C24: the holder never writes to caller-owned objects. Every call into
\* the holder leaves every object the caller holds, the constructor's
\* argument and every argument of updateConfig among them, with the field
\* values it had before the call; an argument written as a literal in the
\* call has the values of the literal.
C24_HolderNeverWritesCallerObjects ==
  [][lastOp'.op \in HolderOps
       => /\ \A a \in CallerHeld : heap'[a] = heap[a]
          /\ lastOp'.op \in {"construct", "create", "updateConfig"}
               => /\ lastOp'.arg \in CallerHeld'
                  /\ lastOp'.arg \notin Addrs
                       => heap'[lastOp'.arg] \in ConfigLiterals \cup UpdateLiterals]_vars

\* updateConfig has just replaced the configuration of a holder whose
\* constructor argument the caller still holds, with other values.
C24_Witness ==
  /\ lastOp.op = "updateConfig"
  /\ lastOp.arg \in CallerHeld
  /\ \E h \in Holders :
       /\ ctorArg[h] \in CallerHeld
       /\ heap[ctorArg[h]] # heap[config[h]]

\* ---------------------------------------------------------------- C25 ----
\* C25: holders are independent. An updateConfig on one holder leaves what
\* getConfig() and initialize() of every other constructed holder report as
\* it was, also when the two were constructed from the same object.
C25_HoldersIndependent ==
  [][\A h \in TwoHolders, g \in TwoHolders :
       (/\ g # h
        /\ lastOp'.op = "updateConfig" /\ lastOp'.holder = h
        /\ config[g] # 0)
       => /\ GetConfigResult(g)' = GetConfigResult(g)
          /\ InitializeResult(g)' = InitializeResult(g)]_vars

\* Two holders constructed from the same object, one of them updated since
\* to other values.
C25_Witness ==
  /\ lastOp.op = "updateConfig"
  /\ ctorArg["h1"] # 0 /\ ctorArg["h1"] = ctorArg["h2"]
  /\ GetConfigResult("h1") # GetConfigResult("h2")

\* ---------------------------------------------------------------- C26 ----
\* C26: a value returned by getConfig() is a snapshot. getConfig returns
\* the field values the holder has at the call, and an updateConfig leaves
\* every value a getConfig returned before with the field values it had.
C26_ReturnedValueIsSnapshot ==
  [][/\ lastOp'.op = "getConfig"
          => heap'[lastOp'.ret] = GetConfigResult(lastOp'.holder)
     /\ lastOp'.op = "updateConfig"
          => \A a \in Returned : heap'[a] = heap[a]]_vars

\* An updateConfig has changed the configuration of a holder, and a value
\* its getConfig returned before still differs from it.
C26_Witness ==
  /\ lastOp.op = "updateConfig"
  /\ \E a \in returned[lastOp.holder] :
       /\ heap[a] # GetConfigResult(lastOp.holder)
       /\ a # lastOp.arg

\* ---------------------------------------------------------------- C27 ----
\* C27: updateConfig copies the values of its argument. Once updateConfig
\* has returned, an assignment of the caller to a field of an object it
\* holds, the partial objects it passed among them, leaves the configuration
\* of the holder as it was.
C27_UpdateConfigCopiesArgument ==
  [][\A h \in Holders :
       (lastOp'.op = "set" /\ nUpdates[h] >= 1)
       => GetConfigResult(h)' = GetConfigResult(h)]_vars

\* The caller has just assigned to a partial object it passed to
\* updateConfig before: a literal that is not the constructor's argument.
C27_Witness ==
  /\ lastOp.op = "set"
  /\ origin[lastOp.arg] = "literal"
  /\ \E h \in Holders :
       /\ nUpdates[h] >= 1
       /\ lastOp.arg # ctorArg[h]
       /\ \E f \in DOMAIN heap[lastOp.arg] :
            heap[lastOp.arg][f] # GetConfigResult(h)[f]

\* ---------------------------------------------------------------- C28 ----
\* C28: updateConfig composes as a right-biased merge. When updateConfig(q)
\* follows updateConfig(p) on a holder, the configuration is the one a
\* single updateConfig would leave, from the configuration before p, with p
\* overridden by q (the fields of p and of q, q's value where both own the
\* field); with q equal to p the second call changes nothing; and every
\* field q owns has q's value.
C28_UpdateConfigComposes ==
  [][\A h \in Holders :
       (/\ lastOp.op = "updateConfig" /\ lastOp.holder = h
        /\ lastOp'.op = "updateConfig" /\ lastOp'.holder = h)
       => LET p == heap[lastOp.arg]
              q == heap'[lastOp'.arg]
              pq == [f \in DOMAIN p \cup DOMAIN q |->
                       IF f \in DOMAIN q THEN q[f] ELSE p[f]]
          IN  /\ \A c \in Addrs :
                   heap[config[h]] = SpreadTwo(heap[c], p)
                   => GetConfigResult(h)' = SpreadOne(SpreadTwo(heap[c], pq))
              /\ q = p => GetConfigResult(h)' = GetConfigResult(h)
              /\ \A f \in DOMAIN q : GetConfigResult(h)'[f] = q[f]]_vars

\* Construction, updateConfig(p), updateConfig(q), p and q two literals that
\* own a common field with different values, p owning a field q does not:
\* the configuration has q's value for the first and p's for the second.
C28_Witness ==
  /\ nSteps = 3
  /\ lastOp.op = "updateConfig"
  /\ \E h \in Holders, p \in Addrs :
       /\ nUpdates[h] = 2
       /\ origin[p] = "literal" /\ p # ctorArg[h] /\ p # lastOp.arg
       /\ \E f \in DOMAIN heap[p] \cap DOMAIN heap[lastOp.arg] :
            /\ heap[p][f] # heap[lastOp.arg][f]
            /\ heap[config[h]][f] = heap[lastOp.arg][f]
       /\ \E f \in DOMAIN heap[p] \ DOMAIN heap[lastOp.arg] :
            /\ heap[config[h]][f] = heap[p][f]
            /\ heap[ctorArg[h]][f] # heap[p][f]

====
